---- MODULE Spec2Model ----
(***************************************************************************)
(* A model of mayonnaise.py: the Matcher class, a character n-gram TF-IDF  *)
(* string matcher.  The state is the four attributes of one Matcher        *)
(* instance, the outcome of the last call on it and one history flag.      *)
(*                                                                         *)
(* Strings are sequences of one-character strings.  Python's None is the   *)
(* empty tuple <<>> and a set attribute x is the one-element tuple <<x>>.  *)
(*                                                                         *)
(* Numbers.  The smoothed idf  ln((1+n)/(1+df)) + 1  is kept in fixed      *)
(* point (IdfScale units).  An L2-normalised row is represented by the     *)
(* primitive integer vector of its direction (the weights divided by their *)
(* gcd), the zero row by itself.  A cosine similarity c >= 0 is            *)
(* represented exactly by the reduced fraction <<p, q>> = c^2, so that     *)
(* 0.0 is <<0, 1>>, 1.0 is <<1, 1>>, and order and equality of scores are  *)
(* those of the fractions.                                                 *)
(***************************************************************************)
EXTENDS Integers, Sequences, FiniteSets

VARIABLES
  ngram_length,   \* self.ngram_length
  vectorizer,     \* the fitted state of self.vectorizer
  tfidf_matrix,   \* self.tfidf_matrix
  sequences,      \* self.sequences
  result,         \* the last call on the instance: operation, argument, outcome
  refitted        \* history: some fit was called on an instance already fitted

vars == <<ngram_length, vectorizer, tfidf_matrix, sequences, result, refitted>>

\* ------------------------------------------------------------ bounds
Alphabet == {"a", "b"}
MaxLen == 2
MaxCorpus == 2
MaxBatch == 1
MaxK == 2
NgMaxLen == 4
NgMaxK == 3

SeqsUpTo(S, n) == UNION {[1..m -> S] : m \in 0..n}
Strings == SeqsUpTo(Alphabet, MaxLen)
Corpora == SeqsUpTo(Strings, MaxCorpus)
Batches == SeqsUpTo(Strings, MaxBatch)
KValues == -1..MaxK
NgStrings == SeqsUpTo(Alphabet, NgMaxLen)
NgKValues == -1..NgMaxK

\* ------------------------------------------------------------ values
None == <<>>
Some(x) == <<x>>
Returned(v) == [status |-> "returned", value |-> <<v>>]
Raised(e) == [status |-> "raised", value |-> <<e>>]
Call(op, arg, outcome) ==
  [op |-> op, arg |-> <<arg>>, status |-> outcome.status, value |-> outcome.value]

\* ------------------------------------------------------------ arithmetic
Min(S) == CHOOSE x \in S : \A y \in S : x <= y

RECURSIVE Gcd(_, _)
Gcd(a, b) == IF b = 0 THEN a ELSE Gcd(b, a % b)

RECURSIVE SetSum(_, _)
SetSum(f, S) ==
  IF S = {} THEN 0
  ELSE LET x == CHOOSE y \in S : TRUE IN f[x] + SetSum(f, S \ {x})

RECURSIVE SetGcd(_, _)
SetGcd(f, S) ==
  IF S = {} THEN 0
  ELSE LET x == CHOOSE y \in S : TRUE IN Gcd(f[x], SetGcd(f, S \ {x}))

Dot(x, y) == SetSum([t \in DOMAIN x |-> x[t] * y[t]], DOMAIN x)

\* a/b < c/d for a, c >= 0 and b, d > 0, without forming the cross products
RECURSIVE FracLess(_, _, _, _)
FracLess(a, b, c, d) ==
  LET qa == a \div b
      qc == c \div d
      ra == a % b
      rc == c % d
  IN IF qa # qc THEN qa < qc
     ELSE IF rc = 0 THEN FALSE
     ELSE IF ra = 0 THEN TRUE
     ELSE FracLess(d, rc, b, ra)

ScoreLess(s, t) == FracLess(s[1], s[2], t[1], t[2])
Zero == <<0, 1>>
One == <<1, 1>>

\* ------------------------------------------------------------ the instance
\* The attributes of a Matcher.  The vectorizer's fitted state is its
\* vocabulary_ and the idf vector of its TfidfTransformer.
Matcher(k, v, m, s) ==
  [ngram_length |-> k, vectorizer |-> v, tfidf_matrix |-> m, sequences |-> s]

Self == Matcher(ngram_length, vectorizer, tfidf_matrix, sequences)

TfidfVectorizer == [vocabulary_ |-> None, idf_ |-> None]

\* Matcher.__init__
init(k) == Matcher(k, TfidfVectorizer, None, None)

\* ------------------------------------------------------------ ngrams
\* Mutant: the slices start one character late (string[i+1:])
SliceOffByOne(string, i) ==
  IF i + 1 >= Len(string) THEN <<>> ELSE SubSeq(string, i + 2, Len(string))

\* string[i:]
Slice(string, i) ==
  IF i >= Len(string) THEN <<>> ELSE SubSeq(string, i + 1, Len(string))

\* zip(*[string[i:] for i in range(k)]), each tuple joined: zip stops at the
\* shortest slice and yields nothing when there is no slice at all
ngrams(self, string) ==
  LET k == self.ngram_length
      slices == [i \in 1..k |-> Slice(string, i - 1)]
      n == IF k <= 0 THEN 0 ELSE Min({Len(slices[i]) : i \in 1..k})
  IN [j \in 1..n |-> [i \in 1..k |-> slices[i][j]]]

\* ------------------------------------------------------------ the vectorizer
Range(s) == {s[i] : i \in DOMAIN s}
Count(tokens, t) == Cardinality({i \in DOMAIN tokens : tokens[i] = t})

\* round(IdfScale * ln x) for x = 1, 2, ...
IdfScale == 10
LnFix == <<0, 7, 11, 14, 16, 18, 19, 21, 22, 23>>

\* smooth_idf: ln((1 + n) / (1 + df)) + 1
Idf(n, df) == IdfScale + LnFix[1 + n] - LnFix[1 + df]

\* norm = 'l2': the direction of v as a primitive integer vector
Normalize(v) ==
  LET g == SetGcd(v, DOMAIN v)
  IN IF g = 0 THEN v ELSE [t \in DOMAIN v |-> v[t] \div g]

\* One tf-idf row: term counts over the vocabulary (tokens outside it are
\* dropped), weighted by idf, normalised
TfidfRow(tokens, vocabulary, idf) ==
  Normalize([t \in vocabulary |-> Count(tokens, t) * idf[t]])

\* Mutant: a refit extends the vocabulary already learned instead of
\* replacing it
LearnedVocabularyKeepingOld(self, analyzed) ==
  UNION {Range(analyzed[i]) : i \in DOMAIN analyzed}
    \cup (IF self.vectorizer.vocabulary_ = None
            THEN {} ELSE self.vectorizer.vocabulary_[1])

\* The analyzer (self.ngrams) applied to every document
Analyze(self, raw_documents) ==
  [i \in DOMAIN raw_documents |-> ngrams(self, raw_documents[i])]

\* The vocabulary fit_transform learns from the analyzed documents
\* (min_df = 1: every n-gram seen), whatever the vectorizer held before
LearnedVocabulary(self, analyzed) ==
  UNION {Range(analyzed[i]) : i \in DOMAIN analyzed}

\* The idf of every term, from its document frequency
LearnedIdf(analyzed, vocabulary) ==
  [t \in vocabulary |->
     Idf(Len(analyzed),
         Cardinality({i \in DOMAIN analyzed : t \in Range(analyzed[i])}))]

\* Mutant: transform does not check that the vectorizer is fitted
NoFittedCheck(self) == TRUE

\* vectorizer.transform needs a fitted vocabulary and a fitted idf vector
CheckIsFitted(self) ==
  /\ self.vectorizer.vocabulary_ # None
  /\ self.vectorizer.idf_ # None

Vocabulary(self) ==
  IF self.vectorizer.vocabulary_ = None THEN {} ELSE self.vectorizer.vocabulary_[1]

\* vectorizer.transform(raw_documents) on a fitted vectorizer
transform(self, raw_documents) ==
  LET analyzed == Analyze(self, raw_documents)
      idf == IF self.vectorizer.idf_ = None
               THEN [t \in Vocabulary(self) |-> IdfScale]
               ELSE self.vectorizer.idf_[1]
  IN [i \in DOMAIN analyzed |-> TfidfRow(analyzed[i], Vocabulary(self), idf)]

\* ------------------------------------------------------------ similarity
Cosine(x, y) ==
  LET d == Dot(x, y)
      n == Dot(x, x) * Dot(y, y)
      g == Gcd(d * d, n)
  IN IF n = 0 \/ d = 0 THEN Zero ELSE <<(d * d) \div g, n \div g>>

\* cosine_similarity(X, Y); with Y = None it compares X with itself
cosine_similarity(X, Y) ==
  LET YY == IF Y = None THEN X ELSE Y[1]
  IN [i \in DOMAIN X |-> [j \in DOMAIN YY |-> Cosine(X[i], YY[j])]]

IsMax(row, j) == \A i \in DOMAIN row : ~ScoreLess(row[j], row[i])

\* np.argmax: the first index of the maximum
argmax(row) == Min({j \in DOMAIN row : IsMax(row, j)})

\* Mutant: the scores are sorted ascending (the negation is forgotten)
argsort_ascending_first(row) ==
  {j \in DOMAIN row : \A i \in DOMAIN row : ~ScoreLess(row[i], row[j])}

\* np.argsort(-row)[0] with the default, unstable, sort: the order of equal
\* keys is unspecified, so the first index may be that of any maximal entry
argsort_first(row) == {j \in DOMAIN row : IsMax(row, j)}

\* ------------------------------------------------------------ operations
\* Each operation gives the set of its possible [self, outcome] pairs (fit)
\* or outcomes (the queries, which assign no attribute).

\* vectorizer.fit_transform(raw_documents): the learned vocabulary and, when
\* it is not empty, the fitted vectorizer and the matrix
fit_transform(self, raw_documents) ==
  LET analyzed == Analyze(self, raw_documents)
      vocabulary == LearnedVocabulary(self, analyzed)
      idf == LearnedIdf(analyzed, vocabulary)
  IN [vocabulary |-> vocabulary,
      vectorizer |-> [vocabulary_ |-> Some(vocabulary), idf_ |-> Some(idf)],
      X |-> [i \in DOMAIN analyzed |-> TfidfRow(analyzed[i], vocabulary, idf)]]

\* What a fit_transform that raises "empty vocabulary" leaves of the
\* vectorizer: vocabulary_ is assigned only after the check, so it keeps its
\* value; the TfidfTransformer is either the one built by the constructor,
\* still holding the previous idf (scikit-learn releases that build it in
\* __init__), or a new unfitted one built at the start of fit_transform
\* (later releases).
FailedFitVectorizer(self) ==
  {self.vectorizer, [self.vectorizer EXCEPT !.idf_ = None]}

\* Matcher.fit: line 53 stores the corpus, then line 54 fits, and raises
\* ValueError before assigning tfidf_matrix when no n-gram is found
fit(self, seqs) ==
  LET stored == [self EXCEPT !.sequences = Some(seqs)]
      f == fit_transform(self, seqs)
  IN IF f.vocabulary = {}
       THEN {[self |-> [stored EXCEPT !.vectorizer = v],
              outcome |-> Raised("ValueError")] : v \in FailedFitVectorizer(self)}
       ELSE {[self |-> [stored EXCEPT !.vectorizer = f.vectorizer,
                                      !.tfidf_matrix = Some(f.X)],
              outcome |-> Returned(None)]}

\* self.sequences[idx] paired with a score
Pick(self, idx, score) ==
  IF self.sequences = None THEN Raised("TypeError")
  ELSE IF idx > Len(self.sequences[1]) THEN Raised("IndexError")
  ELSE Returned(<<self.sequences[1][idx], score>>)

\* Matcher.most_similar
most_similar(self, string) ==
  IF ~CheckIsFitted(self) THEN {Raised("NotFittedError")}
  ELSE LET vect == transform(self, <<string>>)
           cos_values == cosine_similarity(vect, self.tfidf_matrix)
       IN {Pick(self, idx, cos_values[1][idx]) : idx \in argsort_first(cos_values[1])}

\* zip(a, b) stops at the shorter of the two
Zip(a, b) ==
  LET n == IF Len(a) < Len(b) THEN Len(a) ELSE Len(b)
  IN [i \in 1..n |-> <<a[i], b[i]>>]

\* Matcher.get_scores: squeeze() of a 1 x 1 array is a 0-d array, its
\* tolist() a float, and zip of a float raises TypeError
get_scores(self, string) ==
  IF ~CheckIsFitted(self) THEN {Raised("NotFittedError")}
  ELSE LET vect == transform(self, <<string>>)
           cos_values == cosine_similarity(vect, self.tfidf_matrix)[1]
       IN IF Len(cos_values) = 1 \/ self.sequences = None
            THEN {Raised("TypeError")}
            ELSE {Returned(Zip(self.sequences[1], cos_values))}

\* Matcher.get_matcher_dict: transform of an empty list has no rows, which
\* the library rejects with ValueError; a later duplicate overwrites
get_matcher_dict(self, corpus) ==
  IF ~CheckIsFitted(self) THEN {Raised("NotFittedError")}
  ELSE IF corpus = <<>> THEN {Raised("ValueError")}
  ELSE LET corpus_vects == transform(self, corpus)
           cos_values == cosine_similarity(corpus_vects, self.tfidf_matrix)
           picks == [i \in DOMAIN corpus |->
                       LET idx == argmax(cos_values[i])
                       IN Pick(self, idx, cos_values[i][idx])]
           last(text) == CHOOSE i \in DOMAIN corpus :
                           /\ corpus[i] = text
                           /\ \A j \in DOMAIN corpus : corpus[j] = text => j <= i
       IN IF \E i \in DOMAIN corpus : picks[i].status = "raised"
            THEN {picks[Min({i \in DOMAIN corpus : picks[i].status = "raised"})]}
            ELSE {Returned([text \in Range(corpus) |-> picks[last(text)].value[1]])}

\* ------------------------------------------------------------ the state machine
Assign(self) ==
  /\ ngram_length' = self.ngram_length
  /\ vectorizer' = self.vectorizer
  /\ tfidf_matrix' = self.tfidf_matrix
  /\ sequences' = self.sequences

Attributes == <<ngram_length, vectorizer, tfidf_matrix, sequences>>

Construct(k) ==
  /\ ngram_length = k
  /\ vectorizer = init(k).vectorizer
  /\ tfidf_matrix = init(k).tfidf_matrix
  /\ sequences = init(k).sequences
  /\ result = Call("__init__", k, Returned(None))
  /\ refitted = FALSE

Init == \E k \in KValues : Construct(k)

Fit(seqs) ==
  \E r \in fit(Self, seqs) :
    /\ Assign(r.self)
    /\ result' = Call("fit", seqs, r.outcome)
    /\ refitted' = (refitted \/ tfidf_matrix # None)

MostSimilar(string) ==
  \E o \in most_similar(Self, string) :
    /\ result' = Call("most_similar", string, o)
    /\ UNCHANGED <<Attributes, refitted>>

GetScores(string) ==
  \E o \in get_scores(Self, string) :
    /\ result' = Call("get_scores", string, o)
    /\ UNCHANGED <<Attributes, refitted>>

GetMatcherDict(corpus) ==
  \E o \in get_matcher_dict(Self, corpus) :
    /\ result' = Call("get_matcher_dict", corpus, o)
    /\ UNCHANGED <<Attributes, refitted>>

Next ==
  \/ \E seqs \in Corpora : Fit(seqs)
  \/ \E string \in Strings : MostSimilar(string)
  \/ \E string \in Strings : GetScores(string)
  \/ \E corpus \in Batches : GetMatcherDict(corpus)

Spec == Init /\ [][Next]_vars

\* The tokenizer alone, on longer strings and windows
NgInit == \E k \in NgKValues : Construct(k)

Ngrams(string) ==
  /\ result' = Call("ngrams", string, Returned(ngrams(Self, string)))
  /\ UNCHANGED <<Attributes, refitted>>

NgNext == \E string \in NgStrings : Ngrams(string)

SpecNgrams == NgInit /\ [][NgNext]_vars

\* ------------------------------------------------------------ claims
QueryOps == {"most_similar", "get_scores", "get_matcher_dict"}
Arg == result.arg[1]
Value == result.value[1]
Outcome == [status |-> result.status, value |-> result.value]

\* The last fit call stored its corpus (line 53), and it succeeded exactly
\* when that corpus has an n-gram
LastFitSucceeded ==
  /\ sequences # None
  /\ UNION {Range(ngrams(init(ngram_length), sequences[1][i])) :
              i \in DOMAIN sequences[1]} # {}

\* A new Matcher(k) on which only fit(corpus) was called
Fresh(k, corpus) == (CHOOSE r \in fit(init(k), corpus) : TRUE).self

Query(self, op, arg) ==
  CASE op = "most_similar" -> most_similar(self, arg)
    [] op = "get_scores" -> get_scores(self, arg)
    [] op = "get_matcher_dict" -> get_matcher_dict(self, arg)

\* The similarity of a query string to every stored row
ScoresOf(string) ==
  cosine_similarity(transform(Self, <<string>>), tfidf_matrix)[1]

NoDuplicates(s) == \A i, j \in DOMAIN s : s[i] = s[j] => i = j

\* The n-gram counts of a and b are proportional (and neither is empty)
Proportional(a, b) ==
  /\ a # <<>>
  /\ b # <<>>
  /\ \A t, u \in Range(a) \cup Range(b) :
       Count(a, t) * Count(b, u) = Count(a, u) * Count(b, t)

\* C1: on a fitted Matcher, most_similar returns the corpus entry of lowest
\* index among those that reach the maximum score, with that score.
C1_LowestIndexTieBreak ==
  (LastFitSucceeded /\ result.op = "most_similar") =>
    /\ result.status = "returned"
    /\ LET cos_values == ScoresOf(Arg)
           lowest == Min({i \in DOMAIN cos_values : IsMax(cos_values, i)})
       IN Value = <<sequences[1][lowest], cos_values[lowest]>>

\* C2: on a fitted Matcher, get_matcher_dict of a non-empty list of distinct
\* queries returns, for every query, the (match, score) pair that
\* most_similar returns for it, whichever way most_similar resolves a tie.
C2_BatchEqualsSingle ==
  (/\ LastFitSucceeded
   /\ result.op = "get_matcher_dict"
   /\ Arg # <<>>
   /\ NoDuplicates(Arg)) =>
    /\ result.status = "returned"
    /\ \A i \in DOMAIN Arg :
         \A o \in most_similar(Self, Arg[i]) : o = Returned(Value[Arg[i]])

\* C3: on a Matcher fitted on a non-empty corpus, a corpus of one string
\* included, get_scores returns one (string, score) pair per corpus string,
\* the i-th pair holding the i-th corpus string and its similarity.
C3_ScoresInCorpusOrder ==
  (LastFitSucceeded /\ result.op = "get_scores") =>
    /\ result.status = "returned"
    /\ LET cos_values == ScoresOf(Arg)
       IN /\ Len(Value) = Len(sequences[1])
          /\ \A i \in DOMAIN sequences[1] :
               Value[i] = <<sequences[1][i], cos_values[i]>>

\* C4: a query on a Matcher on which no fit has ever succeeded (its matrix was
\* never assigned) raises; it never returns a result.
C4_QueryBeforeFitRaises ==
  (result.op \in QueryOps /\ tfidf_matrix = None) => result.status = "raised"

\* C4 witness: a query raised on an instance with k >= 1 whose only fits
\* failed
C4_Witness ==
  /\ ngram_length >= 1
  /\ result.op \in QueryOps
  /\ tfidf_matrix = None
  /\ sequences # None
  /\ result.status = "raised"

\* C5: on a Matcher with k >= 1, fit([]) raises, and while the empty list is
\* the stored corpus no query returns a result.
C5_EmptyFitLeavesUnfitted ==
  ngram_length >= 1 =>
    /\ (result.op = "fit" /\ Arg = <<>>) => result.status = "raised"
    /\ (result.op \in QueryOps /\ sequences = Some(<<>>)) =>
         result.status = "raised"

\* C6: constructing a Matcher with k < 1 raises, and no instance has k < 1.
C6_ConstructionRejectsInvalidK ==
  /\ (result.op = "__init__" /\ Arg < 1) => result.status = "raised"
  /\ ngram_length >= 1

\* C7 as claimed: on a fitted Matcher, most_similar of any string of the
\* corpus returns that string with score 1.0.
C7_ReflexiveForEveryCorpusString ==
  (/\ LastFitSucceeded
   /\ result.op = "most_similar"
   /\ Arg \in Range(sequences[1])) =>
    /\ result.status = "returned"
    /\ Value = <<Arg, One>>

\* C7 as amended: on a fitted Matcher, most_similar of a corpus string s
\* with at least k characters returns score 1.0 and a corpus entry whose
\* n-gram counts are proportional to those of s (so s itself when no other
\* entry has such counts); for a corpus string shorter than k it returns
\* score 0.0.
C7_ReflexiveUpToEqualRows ==
  (/\ LastFitSucceeded
   /\ result.op = "most_similar"
   /\ Arg \in Range(sequences[1])) =>
    /\ result.status = "returned"
    /\ IF Len(Arg) >= ngram_length
         THEN /\ Value[2] = One
              /\ Value[1] \in Range(sequences[1])
              /\ Proportional(ngrams(Self, Value[1]), ngrams(Self, Arg))
              /\ (\A c \in Range(sequences[1]) :
                    Proportional(ngrams(Self, c), ngrams(Self, Arg)) => c = Arg)
                 => Value[1] = Arg
         ELSE Value[2] = Zero

\* C7 witness: a corpus string was queried and another entry, with
\* proportional n-gram counts, came back
C7_Witness ==
  /\ LastFitSucceeded
  /\ result.op = "most_similar"
  /\ Arg \in Range(sequences[1])
  /\ Len(Arg) >= ngram_length
  /\ result.status = "returned"
  /\ Value[1] # Arg

\* C8: for k >= 1, ngrams(s) is the sequence of the length-k windows of s in
\* order, the i-th being s[i..i+k-1]: len(s) - k + 1 of them when
\* len(s) >= k, none otherwise.
C8_NgramsSlidingWindow ==
  (result.op = "ngrams" /\ ngram_length >= 1) =>
    LET k == ngram_length
    IN /\ Len(Value) = (IF Len(Arg) >= k THEN Len(Arg) - k + 1 ELSE 0)
       /\ \A i \in 1..Len(Value) : Value[i] = SubSeq(Arg, i, i + k - 1)

\* C8 witness: three windows of length 2, the first repeated as the third
C8_Witness ==
  /\ result.op = "ngrams"
  /\ ngram_length = 2
  /\ Len(Value) = 3
  /\ Value[1] = Value[3]
  /\ Value[1] # Value[2]

\* C9: whenever the last fit call succeeded, on corpus C, the attributes are
\* those of a new Matcher(k) on which only fit(C) was called, and a query
\* returns what it returns on that Matcher, whatever was fitted before.
C9_FitReplacesFittedState ==
  LastFitSucceeded =>
    LET fresh == Fresh(ngram_length, sequences[1])
    IN /\ Self = fresh
       /\ result.op \in QueryOps => Outcome \in Query(fresh, result.op, Arg)

\* C9 witness: a query returned after a fit that replaced a fitted state
C9_Witness ==
  /\ refitted
  /\ LastFitSucceeded
  /\ result.op = "most_similar"
  /\ result.status = "returned"

\* C10: on a Matcher with k >= 1 the stored matrix and the stored corpus
\* agree in every state: both unset, or one row per stored string, row i
\* built from stored string i.
C10_MatrixAgreesWithCorpus ==
  ngram_length >= 1 =>
    /\ (tfidf_matrix = None) <=> (sequences = None)
    /\ tfidf_matrix # None =>
         /\ Len(tfidf_matrix[1]) = Len(sequences[1])
         /\ tfidf_matrix[1] = transform(Self, sequences[1])

====
